---- MODULE Spec2Model ----
(***************************************************************************)
(* Model of the text-analysis strategies and the TextAnalyzer dispatcher   *)
(* of Laba.py.  A text is a sequence of one-character strings, a word is a *)
(* non-empty sequence of word characters, a table (Counter / dict) is a    *)
(* function from words to values.                                          *)
(***************************************************************************)
EXTENDS Integers, Sequences, FiniteSets, TLC

VARIABLES
    text_area,        \* content of the text widget (the text to analyze)
    selected_words,   \* the seed words the caller selected
    morph,            \* the morphological analyzer held by the strategy
    _strategy,        \* TextAnalyzer._strategy
    call,             \* the operation last called, with its arguments
    ret               \* what that operation returned or raised

vars == <<text_area, selected_words, morph, _strategy, call, ret>>

---------------------------------------------------------------------------
(* Bounds of the model                                                     *)

MaxLen == 4

MaxTokens == 2

MaxSeeds == 2

---------------------------------------------------------------------------
(* Characters                                                              *)

UpperCase ==
    <<"A","B","C","D","E","F","G","H","I","J","K","L","M",
      "N","O","P","Q","R","S","T","U","V","W","X","Y","Z">>

LowerCase ==
    <<"a","b","c","d","e","f","g","h","i","j","k","l","m",
      "n","o","p","q","r","s","t","u","v","w","x","y","z">>

Digits == {"0","1","2","3","4","5","6","7","8","9"}

Range(s) == {s[i] : i \in DOMAIN s}

\* the class \w of the regular expressions
WordChars == Range(UpperCase) \cup Range(LowerCase) \cup Digits \cup {"_"}

\* the characters str.strip() removes
WhiteSpace == {" ", "\n", "\t"}

\* the class [.!?] of the sentence split
Delimiters == {".", "!", "?"}

\* str.lower() on one character
LowerChar(c) ==
    IF \E i \in DOMAIN UpperCase : UpperCase[i] = c
    THEN LowerCase[CHOOSE i \in DOMAIN UpperCase : UpperCase[i] = c]
    ELSE c

\* str.lower()
Lower(s) == [i \in DOMAIN s |-> LowerChar(s[i])]

---------------------------------------------------------------------------
(* re.findall(r'\b\w+\b', s)                                               *)

IsWordAt(s, i) == i >= 1 /\ i <= Len(s) /\ s[i] \in WordChars

\* \b holds in front of position i (1 .. Len(s)+1)
Boundary(s, i) == IsWordAt(s, i - 1) # IsWordAt(s, i)

\* the positions at which \w+\b can end (exclusive) for a match that starts at i
MatchEnds(s, i) ==
    {j \in (i + 1)..(Len(s) + 1) :
        /\ \A k \in i..(j - 1) : s[k] \in WordChars
        /\ Boundary(s, j)}

SetMax(S) == CHOOSE x \in S : \A y \in S : y <= x

RECURSIVE FindAllFrom(_, _)
FindAllFrom(s, i) ==
    IF i > Len(s) THEN <<>>
    ELSE IF Boundary(s, i) /\ MatchEnds(s, i) # {}
         THEN LET j == SetMax(MatchEnds(s, i))      \* \w+ is greedy
              IN  <<SubSeq(s, i, j - 1)>> \o FindAllFrom(s, j)
         ELSE FindAllFrom(s, i + 1)

FindAllWords(s) == FindAllFrom(s, 1)

\* a faulty tokenizer: the text is not lowercased
Words_CaseSensitive(text) == FindAllWords(text)

\* words = re.findall(r'\b\w+\b', text.lower())
Words(text) == FindAllWords(Lower(text))

---------------------------------------------------------------------------
(* collections.Counter                                                     *)

\* a faulty Counter: a word seen again is not counted again
CounterAdd_NoIncrement(freq, w) ==
    IF w \in DOMAIN freq THEN freq ELSE freq @@ (w :> 1)

CounterAdd(freq, w) ==
    IF w \in DOMAIN freq
    THEN [freq EXCEPT ![w] = @ + 1]
    ELSE freq @@ (w :> 1)

RECURSIVE CounterFrom(_, _)
CounterFrom(freq, ws) ==
    IF ws = <<>> THEN freq
    ELSE CounterFrom(CounterAdd(freq, Head(ws)), Tail(ws))

EmptyTable == [w \in {} |-> 0]

Counter(ws) == CounterFrom(EmptyTable, ws)

---------------------------------------------------------------------------
(* Result values: what a call returns or raises                            *)

NoWord == <<>>

None == [kind |-> "None"]

Raise(exc, w) == [kind |-> "raise", exc |-> exc, word |-> w]

Return(kind, v) == [kind |-> kind, val |-> v]

---------------------------------------------------------------------------
(* AbsoluteFrequencyStrategy                                               *)

AbsoluteFrequencyStrategy_analyze(text) ==
    LET words == Words(text)
        freq  == Counter(words)
    IN  Return("Counter", freq)

---------------------------------------------------------------------------
(* RelativeFrequencyStrategy.  A float is kept as the exact fraction       *)
(* <<numerator, denominator>> it approximates.                             *)

TrueDiv(a, b) ==
    IF b = 0 THEN Raise("ZeroDivisionError", NoWord)
    ELSE Return("float", <<a, b>>)

\* a faulty percentage: the fraction is not scaled by 100
Percentage_Unscaled(count, total_words) == TrueDiv(count, total_words)

\* (count / total_words) * 100
Percentage(count, total_words) ==
    LET q == TrueDiv(count, total_words)
    IN  IF q.kind = "raise" THEN q
        ELSE Return("float", <<q.val[1] * 100, q.val[2]>>)

\* a faulty relative frequency: the scale 100 / total_words is computed
\* once, in front of the comprehension
RelativeFrequencyStrategy_analyze_EagerScale(text) ==
    LET words       == Words(text)
        total_words == Len(words)
        freq        == Counter(words)
        scale       == TrueDiv(100, total_words)
    IN  IF scale.kind = "raise" THEN scale
        ELSE Return("dict", [word \in DOMAIN freq |->
                                <<freq[word] * scale.val[1], scale.val[2]>>])

RelativeFrequencyStrategy_analyze(text) ==
    LET words       == Words(text)
        total_words == Len(words)
        freq        == Counter(words)
        item(word)  == Percentage(freq[word], total_words)
    IN  IF \E word \in DOMAIN freq : item(word).kind = "raise"
        THEN Raise("ZeroDivisionError", NoWord)
        ELSE Return("dict", [word \in DOMAIN freq |-> item(word).val])

---------------------------------------------------------------------------
(* SentenceCountStrategy                                                   *)

\* re.split(r'[.!?]', s): the pieces between the delimiters
RECURSIVE SplitFrom(_, _, _)
SplitFrom(s, i, start) ==
    IF i > Len(s) THEN <<SubSeq(s, start, Len(s))>>
    ELSE IF s[i] \in Delimiters
         THEN <<SubSeq(s, start, i - 1)>> \o SplitFrom(s, i + 1, i + 1)
         ELSE SplitFrom(s, i + 1, start)

Split(s) == SplitFrom(s, 1, 1)

RECURSIVE LStrip(_)
LStrip(s) ==
    IF s # <<>> /\ Head(s) \in WhiteSpace THEN LStrip(Tail(s)) ELSE s

RECURSIVE RStrip(_)
RStrip(s) ==
    IF s # <<>> /\ s[Len(s)] \in WhiteSpace
    THEN RStrip(SubSeq(s, 1, Len(s) - 1)) ELSE s

\* str.strip()
Strip(s) == RStrip(LStrip(s))

\* a Python string is true when it is not empty
Truthy(s) == s # <<>>

\* a faulty filter: the piece is not stripped
KeepSentence_Unstripped(s) == Truthy(s)

\* the sentences the list comprehension keeps
KeepSentence(s) == Truthy(Strip(s))

SentenceCountStrategy_analyze(text) ==
    LET sentences == Split(text)
    IN  Return("int", Len(SelectSeq(sentences, KeepSentence)))

---------------------------------------------------------------------------
(* UniqueWordsCountStrategy                                                *)

UniqueWordsCountStrategy_analyze(text) ==
    LET words        == Words(text)
        unique_words == Range(words)
    IN  Return("int", Cardinality(unique_words))

---------------------------------------------------------------------------
(* The morphological analyzer.  pymorphy2 is handed to the strategy from   *)
(* outside; an analyzer is described by                                    *)
(*   fold        whether it folds the case of the word it is given,        *)
(*   kind        how the normal form is found,                             *)
(*   unsupported the characters of the words it has no parse for,          *)
(*   onfail      what it does with such a word: it returns no parse at     *)
(*               all, or it raises an error of its own carrying the word.  *)

Analyzers ==
    { [fold |-> TRUE,  kind |-> "same",   unsupported |-> {},    onfail |-> "empty"],
      [fold |-> TRUE,  kind |-> "first",  unsupported |-> {},    onfail |-> "empty"],
      [fold |-> FALSE, kind |-> "first",  unsupported |-> {},    onfail |-> "empty"],
      [fold |-> TRUE,  kind |-> "lookup", unsupported |-> {},    onfail |-> "empty"],
      [fold |-> TRUE,  kind |-> "first",  unsupported |-> {"b"}, onfail |-> "empty"],
      [fold |-> TRUE,  kind |-> "same",   unsupported |-> {"b"}, onfail |-> "raise"] }

\* the normal form the analyzer's dictionary gives a supported word
NormalOf(m, w) ==
    LET x == IF m.fold THEN Lower(w) ELSE w
    IN  CASE m.kind = "same"   -> x
          [] m.kind = "first"  -> SubSeq(x, 1, 1)
          [] m.kind = "lookup" -> IF x = <<"a">> THEN <<"a", "b">> ELSE x

Unsupported(m, w) == \E i \in DOMAIN w : w[i] \in m.unsupported

\* morph.parse(word): the list of the parses' normal forms, or an error
Parse(m, word) ==
    IF Unsupported(m, word)
    THEN IF m.onfail = "raise"
         THEN Raise("AnalyzerError", word)
         ELSE Return("list", <<>>)
    ELSE Return("list", <<NormalOf(m, word)>>)

\* morph.parse(word)[0].normal_form
NormalForm(m, word) ==
    LET parses == Parse(m, word)
    IN  IF parses.kind = "raise" THEN parses
        ELSE IF parses.val = <<>> THEN Raise("IndexError", NoWord)
        ELSE Return("str", parses.val[1])

---------------------------------------------------------------------------
(* InflectionHighlightStrategy                                             *)

\* a faulty slice: w[len(lemma) - 1:]
Inflection_OffByOne(w, lemma) == SubSeq(w, Len(lemma), Len(w))

\* w[len(lemma):]
Inflection(w, lemma) == SubSeq(w, Len(lemma) + 1, Len(w))

\* d[k] = v
SetItem(d, k, v) == [x \in DOMAIN d \cup {k} |-> IF x = k THEN v ELSE d[x]]

\* a faulty initialization: inflections.setdefault(lemma, [])
NewGroup_KeepExisting(inflections, lemma) ==
    IF lemma \in DOMAIN inflections THEN inflections
    ELSE SetItem(inflections, lemma, <<>>)

\* inflections[lemma] = []
NewGroup(inflections, lemma) == SetItem(inflections, lemma, <<>>)

\* for w in words: ... inflections[lemma].append(inflection)
RECURSIVE ScanWords(_, _, _, _)
ScanWords(m, lemma, ws, group) ==
    IF ws = <<>> THEN Return("list", group)
    ELSE LET w  == Head(ws)
             nf == NormalForm(m, w)
         IN  IF nf.kind = "raise" THEN nf
             ELSE ScanWords(m, lemma, Tail(ws),
                            IF nf.val = lemma
                            THEN Append(group, Inflection(w, lemma))
                            ELSE group)

\* for word in selected_words: ...
RECURSIVE SeedLoop(_, _, _, _)
SeedLoop(m, seeds, words, inflections) ==
    IF seeds = <<>> THEN Return("dict", inflections)
    ELSE LET word == Head(seeds)
             nf   == NormalForm(m, word)
         IN  IF nf.kind = "raise" THEN nf
             ELSE LET lemma == nf.val
                      fresh == NewGroup(inflections, lemma)
                      scan  == ScanWords(m, lemma, words, fresh[lemma])
                  IN  IF scan.kind = "raise" THEN scan
                      ELSE SeedLoop(m, Tail(seeds), words,
                                    SetItem(fresh, lemma, scan.val))

InflectionHighlightStrategy_analyze(m, text, seeds) ==
    LET inflections == EmptyTable
        words       == Words(text)
    IN  SeedLoop(m, seeds, words, inflections)

---------------------------------------------------------------------------
(* TextAnalyzer                                                            *)

Strategies ==
    { "TextAnalysisStrategy", "AbsoluteFrequencyStrategy",
      "RelativeFrequencyStrategy", "SentenceCountStrategy",
      "InflectionHighlightStrategy", "UniqueWordsCountStrategy" }

\* strategy.analyze(text, *args): a call with the wrong number of
\* arguments is a TypeError
StrategyAnalyze(strategy, m, text, args) ==
    IF strategy = "InflectionHighlightStrategy"
    THEN IF Len(args) = 1
         THEN InflectionHighlightStrategy_analyze(m, text, args[1])
         ELSE Raise("TypeError", NoWord)
    ELSE IF Len(args) # 0 THEN Raise("TypeError", NoWord)
    ELSE CASE strategy = "TextAnalysisStrategy"      -> None
           [] strategy = "AbsoluteFrequencyStrategy" ->
                  AbsoluteFrequencyStrategy_analyze(text)
           [] strategy = "RelativeFrequencyStrategy" ->
                  RelativeFrequencyStrategy_analyze(text)
           [] strategy = "SentenceCountStrategy"     ->
                  SentenceCountStrategy_analyze(text)
           [] strategy = "UniqueWordsCountStrategy"  ->
                  UniqueWordsCountStrategy_analyze(text)

\* a faulty dispatch: the extra arguments are not passed on
TextAnalyzer_analyze_DropArgs(strategy, m, text, args) ==
    StrategyAnalyze(strategy, m, text, <<>>)

\* TextAnalyzer.analyze(text, *args)
TextAnalyzer_analyze(strategy, m, text, args) ==
    StrategyAnalyze(strategy, m, text, args)

---------------------------------------------------------------------------
(* Inputs                                                                  *)

SeqsUpTo(S, n) == UNION {[1..k -> S] : k \in 0..n}

RECURSIVE JoinWords(_)
JoinWords(ws) ==
    IF ws = <<>> THEN <<>>
    ELSE IF Len(ws) = 1 THEN ws[1]
    ELSE ws[1] \o <<" ">> \o JoinWords(Tail(ws))

TextChars == {"a", "A", "b", " ", "."}

ExampleTexts ==
    { <<"H","e","l","l","o",".">>,
      <<"H","e","l","l","o",".",".",".">>,
      <<"H","e","l","l","o","."," ","W","o","r","l","d","!"," ","H","o","w","?">>,
      <<"t","h","e"," ","c","a","t"," ","s","a","t"," ","o","n"," ",
        "t","h","e"," ","m","a","t">>,
      <<"a","_","1"," ","A","_","1","!","?","\n","b">> }

Texts == SeqsUpTo(TextChars, MaxLen) \cup ExampleTexts

TextWords == {<<"a">>, <<"a","b">>, <<"b">>}

TokenTexts == {JoinWords(ws) : ws \in SeqsUpTo(TextWords, MaxTokens)}

SeedWords == {<<"a">>, <<"A">>, <<"a","b">>}

SeedSeqs == SeqsUpTo(SeedWords, MaxSeeds)

---------------------------------------------------------------------------
(* State machine                                                           *)

Called(op, text, args) == [op |-> op, text |-> text, args |-> args]

\* analyzer = TextAnalyzer(strategy)
TextAnalyzer_init(strategy) ==
    /\ _strategy' = strategy
    /\ call' = Called("__init__", <<>>, <<strategy>>)
    /\ ret' = None
    /\ UNCHANGED <<text_area, selected_words, morph>>

set_strategy(strategy) ==
    /\ _strategy' = strategy
    /\ call' = Called("set_strategy", <<>>, <<strategy>>)
    /\ ret' = None
    /\ UNCHANGED <<text_area, selected_words, morph>>

analyze(args) ==
    /\ ret' = TextAnalyzer_analyze(_strategy, morph, text_area, args)
    /\ call' = Called("analyze", text_area, args)
    /\ UNCHANGED <<text_area, selected_words, morph, _strategy>>

\* text_area.get(1.0, tk.END): the content and the newline that ends it
WidgetText == text_area \o <<"\n">>

\* text_area.selection_get()
Selection == JoinWords(selected_words)

\* the body the four one-argument menu commands share
Show(op, strategy) ==
    /\ _strategy' = strategy
    /\ ret' = TextAnalyzer_analyze(strategy, morph, WidgetText, <<>>)
    /\ call' = Called(op, WidgetText, <<>>)
    /\ UNCHANGED <<text_area, selected_words, morph>>

show_absolute_frequency == Show("show_absolute_frequency", "AbsoluteFrequencyStrategy")

show_relative_frequency == Show("show_relative_frequency", "RelativeFrequencyStrategy")

show_sentence_count == Show("show_sentence_count", "SentenceCountStrategy")

show_unique_words_count == Show("show_unique_words_count", "UniqueWordsCountStrategy")

show_inflections ==
    IF Selection = <<>>
    THEN \* nothing is selected: tk.TclError, caught
         /\ ret' = [kind |-> "showerror", msg |-> "No text selected."]
         /\ call' = Called("show_inflections", <<>>, <<>>)
         /\ UNCHANGED <<text_area, selected_words, morph, _strategy>>
    ELSE LET words == FindAllWords(Lower(Selection))
         IN  /\ _strategy' = "InflectionHighlightStrategy"
             /\ ret' = TextAnalyzer_analyze("InflectionHighlightStrategy",
                                            morph, WidgetText, <<words>>)
             /\ call' = Called("show_inflections", WidgetText, <<words>>)
             /\ UNCHANGED <<text_area, selected_words, morph>>

Constructed ==
    /\ _strategy \in Strategies
    /\ call = Called("__init__", <<>>, <<_strategy>>)
    /\ ret = None

DefaultAnalyzer ==
    [fold |-> TRUE, kind |-> "same", unsupported |-> {}, onfail |-> "empty"]

Init ==
    /\ text_area \in Texts
    /\ selected_words \in {<<>>, << <<"A">> >>}
    /\ morph = DefaultAnalyzer
    /\ Constructed

InitInflection ==
    /\ text_area \in TokenTexts
    /\ selected_words \in SeedSeqs
    /\ morph \in Analyzers
    /\ Constructed

Next ==
    \/ \E strategy \in Strategies : TextAnalyzer_init(strategy)
    \/ \E strategy \in Strategies : set_strategy(strategy)
    \/ analyze(<<>>)
    \/ analyze(<<selected_words>>)
    \/ show_absolute_frequency
    \/ show_relative_frequency
    \/ show_sentence_count
    \/ show_inflections
    \/ show_unique_words_count

Spec == Init /\ [][Next]_vars

SpecInflection == InitInflection /\ [][Next]_vars

---------------------------------------------------------------------------
(* What the properties speak about                                         *)

AnalyzeOps ==
    { "analyze", "show_absolute_frequency", "show_relative_frequency",
      "show_sentence_count", "show_inflections", "show_unique_words_count" }

\* the last operation ran `strategy` on call.text with n extra arguments
Ran(strategy, n) ==
    /\ call.op \in AnalyzeOps
    /\ ret.kind # "showerror"
    /\ _strategy = strategy
    /\ Len(call.args) = n

\* the maximal runs of word characters of s, as <<first, last>> positions
Runs(s) ==
    {r \in (1..Len(s)) \X (1..Len(s)) :
        /\ r[1] <= r[2]
        /\ \A k \in r[1]..r[2] : s[k] \in WordChars
        /\ r[1] = 1 \/ s[r[1] - 1] \notin WordChars
        /\ r[2] = Len(s) \/ s[r[2] + 1] \notin WordChars}

\* the token of a run: its characters, lowercased
TokenAt(s, r) == [k \in 1..(r[2] - r[1] + 1) |-> LowerChar(s[r[1] + k - 1])]

TokenSet(s) == {TokenAt(s, r) : r \in Runs(s)}

Occurrences(s, w) == Cardinality({r \in Runs(s) : TokenAt(s, r) = w})

\* the tokens of s in text order
TokenSeq(s) ==
    LET R == Runs(s)
    IN  [n \in 1..Cardinality(R) |->
            TokenAt(s, CHOOSE r \in R : Cardinality({q \in R : q[1] < r[1]}) = n - 1)]

RECURSIVE SumOver(_, _)
SumOver(f, S) ==
    IF S = {} THEN 0
    ELSE LET x == CHOOSE y \in S : TRUE
         IN  f[x] + SumOver(f, S \ {x})

TheCatSat ==
    <<"t","h","e"," ","c","a","t"," ","s","a","t"," ","o","n"," ",
      "t","h","e"," ","m","a","t">>

TheCatSatTable ==
    (<<"t","h","e">> :> 2) @@ (<<"c","a","t">> :> 1) @@ (<<"s","a","t">> :> 1)
        @@ (<<"o","n">> :> 1) @@ (<<"m","a","t">> :> 1)

---------------------------------------------------------------------------
\* C1: the counts of the table AbsoluteFrequencyStrategy.analyze returns sum
\* to the number of tokens of the text (its lowercased maximal runs of word
\* characters), its keys are the tokens, and each key's count is the number
\* of occurrences of that token; "the cat sat on the mat" gives
\* {the:2, cat:1, sat:1, on:1, mat:1}.
C1_AbsoluteFrequencyCounts ==
    Ran("AbsoluteFrequencyStrategy", 0) =>
        /\ ret.kind = "Counter"
        /\ DOMAIN ret.val = TokenSet(call.text)
        /\ SumOver(ret.val, DOMAIN ret.val) = Cardinality(Runs(call.text))
        /\ \A w \in DOMAIN ret.val : ret.val[w] = Occurrences(call.text, w)
        /\ call.text = TheCatSat => ret.val = TheCatSatTable

C1_Witness ==
    /\ Ran("AbsoluteFrequencyStrategy", 0)
    /\ ret.kind = "Counter"
    /\ Cardinality(DOMAIN ret.val) >= 2
    /\ \E w \in DOMAIN ret.val : ret.val[w] = 2

\* C2: on a text without tokens RelativeFrequencyStrategy.analyze returns
\* the empty table; no ZeroDivisionError is raised.
C2_RelativeFrequencyNoTokens ==
    (Ran("RelativeFrequencyStrategy", 0) /\ Runs(call.text) = {}) =>
        /\ ret.kind = "dict"
        /\ DOMAIN ret.val = {}

C2_Witness ==
    /\ Ran("RelativeFrequencyStrategy", 0)
    /\ call.op = "analyze"
    /\ Len(call.text) >= 2
    /\ Runs(call.text) = {}
    /\ ret.kind = "dict"

\* C3: on a text with at least one token RelativeFrequencyStrategy.analyze
\* returns a table with the keys of the absolute frequencies, each value is
\* 100 * count / totalTokens, and the values sum to 100 (as exact fractions).
C3_RelativeFrequencyValues ==
    (Ran("RelativeFrequencyStrategy", 0) /\ Runs(call.text) # {}) =>
        LET total == Cardinality(Runs(call.text))
            scaled == [w \in DOMAIN ret.val |->
                          (ret.val[w][1] * total) \div ret.val[w][2]]
        IN  /\ ret.kind = "dict"
            /\ DOMAIN ret.val = TokenSet(call.text)
            /\ \A w \in DOMAIN ret.val :
                  /\ ret.val[w][2] > 0
                  /\ ret.val[w][1] * total
                        = 100 * Occurrences(call.text, w) * ret.val[w][2]
            /\ SumOver(scaled, DOMAIN scaled) = 100 * total

C3_Witness ==
    /\ Ran("RelativeFrequencyStrategy", 0)
    /\ ret.kind = "dict"
    /\ Cardinality(DOMAIN ret.val) >= 2
    /\ \E w \in DOMAIN ret.val : Occurrences(call.text, w) = 2

\* the pieces between the delimiters that hold a character that is not
\* white space, each named by the position it starts at
RetainedSegments(s) ==
    {k \in 1..(Len(s) + 1) :
        /\ k = 1 \/ s[k - 1] \in Delimiters
        /\ \E j \in k..Len(s) :
              /\ s[j] \notin WhiteSpace
              /\ \A i \in k..j : s[i] \notin Delimiters}

HelloOne == <<"H","e","l","l","o",".">>

HelloDots == <<"H","e","l","l","o",".",".",".">>

HelloThree ==
    <<"H","e","l","l","o","."," ","W","o","r","l","d","!"," ","H","o","w","?">>

\* C4: SentenceCountStrategy.analyze returns the number of pieces between
\* '.', '!' and '?' whose trimmed content is not empty: 0 for "", 1 for
\* "Hello.", 1 for "Hello..." and 3 for "Hello. World! How?".
C4_SentenceCount ==
    Ran("SentenceCountStrategy", 0) =>
        /\ ret.kind = "int"
        /\ ret.val = Cardinality(RetainedSegments(call.text))
        /\ call.text = <<>> => ret.val = 0
        /\ call.text = HelloOne => ret.val = 1
        /\ call.text = HelloDots => ret.val = 1
        /\ call.text = HelloThree => ret.val = 3

C4_Witness ==
    /\ Ran("SentenceCountStrategy", 0)
    /\ call.text = HelloDots
    /\ ret.val = 1

\* C5: UniqueWordsCountStrategy.analyze returns the number of distinct
\* tokens, which is the number of keys of the absolute frequencies; tokens
\* that differ only in letter case are one token.
C5_UniqueWordsCount ==
    Ran("UniqueWordsCountStrategy", 0) =>
        /\ ret.kind = "int"
        /\ ret.val = Cardinality(TokenSet(call.text))
        /\ ret.val = Cardinality(DOMAIN AbsoluteFrequencyStrategy_analyze(call.text).val)

C5_Witness ==
    /\ Ran("UniqueWordsCountStrategy", 0)
    /\ call.text = <<"a", " ", "A">>
    /\ ret.val = 1

---------------------------------------------------------------------------
(* Inflection groups                                                       *)

\* the words the strategy hands to the analyzer: every seed and, when there
\* is a seed at all, every token of the text
WordsParsed(text, seeds) ==
    Range(seeds) \cup (IF seeds = <<>> THEN {} ELSE Range(TokenSeq(text)))

\* the analyzer has a normal form for every word it is handed
AllSupported(text, seeds) ==
    \A w \in WordsParsed(text, seeds) : ~Unsupported(morph, w)

\* w without its first n characters
DropFirst(w, n) ==
    [k \in 1..(IF Len(w) > n THEN Len(w) - n ELSE 0) |-> w[k + n]]

HasLemma(L, w) == NormalOf(morph, w) = L

\* the suffixes, in text order, of the tokens whose lemma is L
SuffixesOf(text, L) ==
    LET hits == SelectSeq(TokenSeq(text), LAMBDA w : HasLemma(L, w))
    IN  [n \in 1..Len(hits) |-> DropFirst(hits[n], Len(L))]

\* C6: InflectionHighlightStrategy.analyze maps the lemma L of each seed to
\* the sequence, in text order, of the tokens whose lemma is L, each without
\* its first length(L) characters; tokens with another lemma add nothing and
\* a token shorter than L adds the empty string.
C6_InflectionGroups ==
    (Ran("InflectionHighlightStrategy", 1)
        /\ AllSupported(call.text, call.args[1])) =>
        /\ ret.kind = "dict"
        /\ DOMAIN ret.val = {NormalOf(morph, w) : w \in Range(call.args[1])}
        /\ \A L \in DOMAIN ret.val : ret.val[L] = SuffixesOf(call.text, L)

C6_Witness ==
    /\ Ran("InflectionHighlightStrategy", 1)
    /\ ret.kind = "dict"
    /\ Len(TokenSeq(call.text)) = 2
    /\ \E L \in DOMAIN ret.val :
          /\ Len(ret.val[L]) = 1
          /\ ret.val[L][1] # <<>>

\* a token shorter than the lemma adds the empty string
C6_WitnessShortToken ==
    /\ Ran("InflectionHighlightStrategy", 1)
    /\ ret.kind = "dict"
    /\ \E L \in DOMAIN ret.val :
          /\ ret.val[L] # <<>>
          /\ \E w \in Range(TokenSeq(call.text)) : HasLemma(L, w) /\ Len(w) < Len(L)

\* the seeds without those whose lemma an earlier seed has
RECURSIVE DistinctLemmaSeeds(_, _)
DistinctLemmaSeeds(seeds, seen) ==
    IF seeds = <<>> THEN <<>>
    ELSE LET w == Head(seeds)
             L == NormalOf(morph, w)
         IN  IF ~Unsupported(morph, w) /\ L \in seen
             THEN DistinctLemmaSeeds(Tail(seeds), seen)
             ELSE <<w>> \o DistinctLemmaSeeds(Tail(seeds), seen \cup {L})

SeedLemmas(seeds) == {NormalOf(morph, w) : w \in Range(seeds)}

HasRepeatedLemma(seeds) == Cardinality(SeedLemmas(seeds)) < Len(seeds)

\* C7: with several seeds of one lemma the result has one entry for each
\* distinct seed lemma, holding the suffixes of a single scan of the text:
\* it is the result for the seeds without the repeated lemmas.
C7_RepeatedLemmaSeeds ==
    (Ran("InflectionHighlightStrategy", 1) /\ HasRepeatedLemma(call.args[1])) =>
        /\ ret = InflectionHighlightStrategy_analyze(
                     morph, call.text, DistinctLemmaSeeds(call.args[1], {}))
        /\ ret.kind = "dict" =>
              /\ Cardinality(DOMAIN ret.val) = Cardinality(SeedLemmas(call.args[1]))
              /\ \A L \in DOMAIN ret.val :
                    Len(ret.val[L]) = Len(SuffixesOf(call.text, L))

C7_Witness ==
    /\ Ran("InflectionHighlightStrategy", 1)
    /\ HasRepeatedLemma(call.args[1])
    /\ call.args[1][1] # call.args[1][2]
    /\ ret.kind = "dict"
    /\ \E L \in DOMAIN ret.val : Len(ret.val[L]) = 2

LowerSeeds(seeds) == [i \in DOMAIN seeds |-> Lower(seeds[i])]

\* C8: the seeds are lowercased before they are lemmatized: the result of
\* InflectionHighlightStrategy.analyze, called directly or through
\* TextAnalyzer.analyze, is the result for the lowercased seeds.
C8_SeedsCaseInsensitive ==
    Ran("InflectionHighlightStrategy", 1) =>
        ret = InflectionHighlightStrategy_analyze(
                  morph, call.text, LowerSeeds(call.args[1]))

\* C9: when the analyzer has no lemma for a seed or a token it is handed,
\* the call ends in a failure that names the offending word; no result is
\* returned.
C9_AnalyzerFailureNamesWord ==
    (Ran("InflectionHighlightStrategy", 1)
        /\ ~AllSupported(call.text, call.args[1])) =>
        /\ ret.kind = "raise"
        /\ ret.word \in {w \in WordsParsed(call.text, call.args[1]) :
                            Unsupported(morph, w)}

\* C10: TextAnalyzer.analyze returns what the strategy selected last (by the
\* constructor or set_strategy) returns for the same arguments, and leaves
\* the selection alone; the result is a function of the selected strategy
\* and the arguments of the call, whatever was returned before.
C10_PureDispatch ==
    [][ /\ call'.op \in {"__init__", "set_strategy"} =>
              _strategy' = call'.args[1]
        /\ call'.op = "analyze" =>
              /\ _strategy' = _strategy
              /\ ret' = StrategyAnalyze(_strategy, morph, call'.text, call'.args)
      ]_vars

C10_Witness ==
    /\ call.op = "analyze"
    /\ _strategy = "InflectionHighlightStrategy"
    /\ Len(call.args) = 1
    /\ ret.kind = "dict"
    /\ \E L \in DOMAIN ret.val : ret.val[L] # <<>>

====
